---- MODULE Spec2Model ----
(***************************************************************************)
(* Model of the Mesa rectangle packing simulation                         *)
(* (mesa_approach/model/model.py, mesa_approach/agents/agents.py).         *)
(*                                                                         *)
(* Real numbers are fixed-point integers: U units per 1.0.  Positions,     *)
(* extents and velocities are all in these units; the weights of the force *)
(* model are kept in hundredths (0.95 is 95) and divided out where the     *)
(* code multiplies by them.  Divisions round toward zero.                  *)
(***************************************************************************)
EXTENDS Integers, Sequences, FiniteSets, TLC

\* ------------------------------------------------------------------ bounds
U == 1024                 \* fixed-point units per 1.0
ArenaSize == 24           \* width = height of the space, in 1.0s
Speed == 5                \* the speed cap handed to the model, in 1.0s
MaxAttempts == 2          \* max_attempts of spawn_rectangle
MaxTicks == 1             \* model steps explored when rectangles interact

\* --------------------------------------------------- constants of the code
COHESION_WEIGHT == 40     \* hundredths
SEPARATION_WEIGHT == 100  \* hundredths
SHRINK_WEIGHT == 60       \* hundredths
ALIGN_WEIGHT == 20        \* hundredths
DAMPING == 95             \* hundredths
MIN_SPEED == 1            \* hundredths
BisectIters == 12         \* range(12)

space_width == ArenaSize * U
space_height == ArenaSize * U
speed == Speed * U

\* ------------------------------------------------------------------ inputs
\* values of population_size
Populations == {1, 2, 3}
\* <<rect_h, rect_w>> drawn by the constructor (between MIN_FRAC and MAX_FRAC
\* of the space)
InitSizes == {<<2 * U, 2 * U>>, <<4 * U, 4 * U>>}
\* <<height, width>> a caller hands to spawn_rectangle that the constructor
\* never draws: as wide or as high as the space, or more
CallSizes ==
    {<<4 * U, ArenaSize * U>>, <<ArenaSize * U, 4 * U>>,
     <<(ArenaSize + 2) * U, (ArenaSize + 2) * U>>}
\* centres rng.random() * (max - min) + min may give that the model explores
SampleCentres ==
    {<<10 * U, 10 * U>>, <<14 * U, 10 * U>>, <<10 * U, 14 * U>>, <<14 * U, 14 * U>>,
     <<21 * U, 10 * U>>, <<20 * U, 13 * U>>}
\* velocities the first rectangle may be given before the first step
StartVelocities == {<<0, 0>>, <<5 * U, 0>>, <<3 * U, 2 * U>>, <<3 * U, -(4 * U)>>}

\* ----------------------------------------------------------------- helpers
Abs(a) == IF a < 0 THEN -a ELSE a

\* float division, rounded toward zero
SDiv(a, b) == IF (a < 0) = (b < 0) THEN Abs(a) \div Abs(b) ELSE -(Abs(a) \div Abs(b))

VAdd(a, b) == <<a[1] + b[1], a[2] + b[2]>>
VSub(a, b) == <<a[1] - b[1], a[2] - b[2]>>
VMulDiv(a, n, d) == <<SDiv(a[1] * n, d), SDiv(a[2] * n, d)>>
Zero2 == <<0, 0>>

RECURSIVE SqrtSearch(_, _, _)
SqrtSearch(n, lo, hi) ==
    IF hi - lo <= 1 THEN lo
    ELSE LET mid == (lo + hi) \div 2
         IN IF mid * mid <= n THEN SqrtSearch(n, mid, hi) ELSE SqrtSearch(n, lo, mid)

\* floor of the square root; 46341^2 exceeds the 32-bit range
ISqrt(n) == SqrtSearch(n, 0, 46341)

\* np.linalg.norm of a 2-vector
Norm(v) == ISqrt(v[1] * v[1] + v[2] * v[2])

Min(a, b) == IF a < b THEN a ELSE b
Max(a, b) == IF a > b THEN a ELSE b
Clip(v, lo, hi) == Min(Max(v, lo), hi)

SetMin(S) == CHOOSE m \in S : \A o \in S : m <= o
SetMax(S) == CHOOSE m \in S : \A o \in S : m >= o

VARIABLES
    agent_list,   \* sequence of rectangles: position, width, height, velocity
    x_tree,       \* interval tree of the x axis: set of <<begin, end, data>>
    y_tree,       \* interval tree of the y axis
    rng,          \* number of values drawn from the generator so far
    population_size, \* the population_size the model was created with
    pc,           \* "draw", "spawn", "ready", "called", "run", "failed"
    size,         \* <<rect_h, rect_w>> drawn for the rectangle being placed
    error,        \* exception raised by the last spawn_rectangle, or "none"
    cur,          \* index in agent_list of the next agent that model.step steps
    ticks,        \* completed model steps (saturates at MaxTicks)
    last,         \* what the last operation did, for the properties
    tick_start    \* each rectangle's position when the model step under way began

vars == <<agent_list, x_tree, y_tree, rng, population_size, pc, size, error, cur, ticks,
          last, tick_start>>

\* ------------------------------------------------------------ model.py 88-94
RectInterval(position, width, height) ==
    [x_min |-> position[1] - width \div 2,
     x_max |-> position[1] + width \div 2,
     y_min |-> position[2] - height \div 2,
     y_max |-> position[2] + height \div 2]

\* IntervalTree.addi: the tree is a set of intervals; a null interval raises
AddI(tree, begin, end, data) == tree \cup {<<begin, end, data>>}

\* IntervalTree[begin:end]: the intervals that overlap [begin, end)
TreeOverlap(tree, begin, end) ==
    IF begin >= end THEN {}
    ELSE {iv \in tree : iv[1] < end /\ iv[2] > begin}

\* --------------------------------------------------------- model.py 96-111
\* the trees after add_agent_intervals of agent id, whose fields are a
add_agent_intervals(xt, yt, id, a) ==
    LET b == RectInterval(a.position, a.width, a.height)
    IN [x |-> AddI(xt, b.x_min, b.x_max, id), y |-> AddI(yt, b.y_min, b.y_max, id)]

\* the entries of the y axis left in place
remove_x_intervals_only(xt, yt, id) ==
    [x |-> {iv \in xt : iv[3] # id}, y |-> yt]

remove_agent_intervals(xt, yt, id) ==
    [x |-> {iv \in xt : iv[3] # id}, y |-> {iv \in yt : iv[3] # id}]

\* the new intervals added, the old ones kept
update_without_remove(xt, yt, id, a) == add_agent_intervals(xt, yt, id, a)

\* the index left as it was when the model step began
update_left_out(xt, yt, id, a) == [x |-> xt, y |-> yt]

update_agent_intervals(xt, yt, id, a) ==
    LET r == remove_agent_intervals(xt, yt, id)
    IN add_agent_intervals(r.x, r.y, id, a)

\* the y interval looked up in the tree of the x axis
potential_overlaps_one_tree(xt, yt, position, width, height) ==
    LET b == RectInterval(position, width, height)
        x_hits == {iv[3] : iv \in TreeOverlap(xt, b.x_min, b.x_max)}
        y_hits == {iv[3] : iv \in TreeOverlap(xt, b.y_min, b.y_max)}
    IN x_hits \cap y_hits

\* -------------------------------------------------------- model.py 113-118
potential_overlaps_for_rect(xt, yt, position, width, height) ==
    LET b == RectInterval(position, width, height)
        x_hits == {iv[3] : iv \in TreeOverlap(xt, b.x_min, b.x_max)}
        y_hits == {iv[3] : iv \in TreeOverlap(yt, b.y_min, b.y_max)}
    IN x_hits \cap y_hits

\* -------------------------------------------------------- model.py 120-131
rects_overlap(pos1, w1, h1, pos2, w2, h2) ==
    LET x1_min == pos1[1] - w1 \div 2
        x1_max == pos1[1] + w1 \div 2
        y1_min == pos1[2] - h1 \div 2
        y1_max == pos1[2] + h1 \div 2
        x2_min == pos2[1] - w2 \div 2
        x2_max == pos2[1] + w2 \div 2
        y2_min == pos2[2] - h2 \div 2
        y2_max == pos2[2] + h2 \div 2
    IN ~(x1_max <= x2_min \/ x1_min >= x2_max \/ y1_max <= y2_min \/ y1_min >= y2_max)

\* a sample counted as overlapping only when it covers a candidate's centre
SampleCoversCentre(al, xt, yt, position, width, height) ==
    \E c \in potential_overlaps_for_rect(xt, yt, position, width, height) :
        rects_overlap(position, width, height, al[c].position, 0, 0)

\* -------------------------------------------------------- model.py 133-151
\* does the sample at position overlap a rectangle the index holds
SampleOverlaps(al, xt, yt, position, width, height) ==
    \E c \in potential_overlaps_for_rect(xt, yt, position, width, height) :
        rects_overlap(position, width, height, al[c].position, al[c].width, al[c].height)

\* the centres rng.random() * (max - min) + min can give
SamplePoints(height, width) ==
    {p \in SampleCentres :
        /\ width \div 2 <= p[1] /\ p[1] < space_width - width \div 2
        /\ height \div 2 <= p[2] /\ p[2] < space_height - height \div 2}

\* the values the generator can yield to one spawn_rectangle call; a call
\* that draws nothing is given a stream of zeros
SampleStreams(height, width) ==
    IF SamplePoints(height, width) = {}
    THEN {[k \in 1..MaxAttempts |-> Zero2]}
    ELSE [1..MaxAttempts -> SamplePoints(height, width)]

\* index of the first sample that is free of overlap, 0 when there is none
RECURSIVE FirstClear(_, _, _, _, _, _, _)
FirstClear(al, xt, yt, samples, height, width, k) ==
    IF k > Len(samples) THEN 0
    ELSE IF ~SampleOverlaps(al, xt, yt, samples[k], width, height) THEN k
    ELSE FirstClear(al, xt, yt, samples, height, width, k + 1)

\* the size test with > in place of >=
spawn_rectangle_strict(al, xt, yt, height, width, samples) ==
    IF width > space_width \/ height > space_height
    THEN [error |-> "ValueError", draws |-> 0, rect |-> <<>>]
    ELSE LET k == FirstClear(al, xt, yt, samples, height, width, 1)
         IN IF k = 0
            THEN [error |-> "Exhausted", draws |-> 2 * Len(samples), rect |-> <<>>]
            ELSE [error |-> "none", draws |-> 2 * k,
                  rect |-> <<[position |-> samples[k], width |-> width,
                              height |-> height, velocity |-> Zero2]>>]

\* spawn_rectangle(height, width, max_attempts) where the generator yields
\* samples: the exception or the rectangle, and the number of values drawn
spawn_rectangle(al, xt, yt, height, width, samples) ==
    IF width >= space_width \/ height >= space_height
    THEN [error |-> "ValueError", draws |-> 0, rect |-> <<>>]
    ELSE LET k == FirstClear(al, xt, yt, samples, height, width, 1)
         IN IF k = 0
            THEN [error |-> "Exhausted", draws |-> 2 * Len(samples), rect |-> <<>>]
            ELSE [error |-> "none", draws |-> 2 * k,
                  rect |-> <<[position |-> samples[k], width |-> width,
                              height |-> height, velocity |-> Zero2]>>]

\* ------------------------------------------------------- agents.py 66-118
Others(al, i) == {j \in 1..Len(al) : j # i}

RECURSIVE VSum(_, _)
VSum(f, S) ==
    IF S = {} THEN Zero2
    ELSE LET j == CHOOSE k \in S : TRUE IN VAdd(f[j], VSum(f, S \ {j}))

\* centre and half diagonal of the box around all rectangles (lines 69-88)
BBox(al) ==
    LET ids == 1..Len(al)
        left == SetMin({al[j].position[1] - al[j].width \div 2 : j \in ids})
        right == SetMax({al[j].position[1] + al[j].width \div 2 : j \in ids})
        bottom == SetMin({al[j].position[2] - al[j].height \div 2 : j \in ids})
        top == SetMax({al[j].position[2] + al[j].height \div 2 : j \in ids})
    IN [center |-> <<(left + right) \div 2, (bottom + top) \div 2>>,
        half_diag |-> Norm(<<(right - left) \div 2, (top - bottom) \div 2>>)]

\* lines 80-84
CohesionVec(to_center) ==
    LET d == Norm(to_center)
    IN IF d > 0 THEN VMulDiv(to_center, COHESION_WEIGHT * U, 100 * d) ELSE Zero2

\* lines 85-92; the 1e-8 guards are below one unit
ShrinkVec(to_center, half_diag) ==
    LET d == Norm(to_center)
        shrink_strength == SDiv(SHRINK_WEIGHT * SDiv(d * U, half_diag), 100)
    IN IF d > 0 THEN VMulDiv(to_center, shrink_strength, d) ELSE Zero2

\* lines 99-107: the push away from one candidate
SeparationFrom(a, o) ==
    LET offset == VSub(a.position, o.position)
        dist == Norm(offset)
        min_dx == (a.width + o.width) \div 2
        min_dy == (a.height + o.height) \div 2
        min_dist == Norm(<<min_dx, min_dy>>)
    IN IF dist > 0 /\ 2 * dist < 3 * min_dist
       THEN VMulDiv(offset, SDiv(SEPARATION_WEIGHT * SDiv(U * U, dist), 100), dist)
       ELSE Zero2

\* lines 94-107
SeparationVec(al, xt, yt, i) ==
    LET a == al[i]
        candidates == potential_overlaps_for_rect(xt, yt, a.position, a.width, a.height) \ {i}
    IN VSum([j \in candidates |-> SeparationFrom(a, al[j])], candidates)

\* lines 109-114
AlignVec(al, i) ==
    LET all_agents == Others(al, i)
        total == VSum([j \in all_agents |-> al[j].velocity], all_agents)
        avg_vel == VMulDiv(total, 1, Cardinality(all_agents))
        n == Norm(avg_vel)
    IN IF n > 0 THEN VMulDiv(avg_vel, ALIGN_WEIGHT * U, 100 * n) ELSE Zero2

\* lines 66-118
DeltaV(al, xt, yt, i) ==
    IF Others(al, i) # {}
    THEN LET bb == BBox(al)
             to_center == VSub(bb.center, al[i].position)
         IN VAdd(VAdd(CohesionVec(to_center), ShrinkVec(to_center, bb.half_diag)),
                 VAdd(SeparationVec(al, xt, yt, i), AlignVec(al, i)))
    ELSE Zero2

\* ------------------------------------------------------ agents.py 120-127
NormSq(v) == v[1] * v[1] + v[2] * v[2]

\* the damping factor left out
Undamped(velocity, delta_v) == VAdd(velocity, delta_v)

\* line 120
Damped(velocity, delta_v) == VMulDiv(VAdd(velocity, delta_v), DAMPING, 100)

\* a velocity whose square leaves the 32-bit range is cut down to
\* 1/128 before its norm is taken: the direction is what the cap keeps
Huge(v) == Abs(v[1]) > 30 * U \/ Abs(v[2]) > 30 * U

\* lines 123-124
Capped(v) ==
    IF Huge(v)
    THEN LET c == VMulDiv(v, 1, 128) IN VMulDiv(c, speed, Norm(c))
    ELSE IF NormSq(v) > speed * speed THEN VMulDiv(v, speed, Norm(v)) ELSE v

\* lines 126-127: norm < MIN_SPEED
Snapped(v) ==
    IF NormSq(v) <= (MIN_SPEED * MIN_SPEED * U * U - 1) \div (100 * 100) THEN Zero2 ELSE v

NewVelocity(al, xt, yt, i) == Snapped(Capped(Damped(al[i].velocity, DeltaV(al, xt, yt, i))))

\* the candidates looked up around the agent's own position instead of the
\* position asked about
overlaps_at_own_position(al, xt, yt, i, position) ==
    LET a == al[i]
        candidates == potential_overlaps_for_rect(xt, yt, a.position, a.width, a.height) \ {i}
    IN \E c \in candidates :
          rects_overlap(position, a.width, a.height, al[c].position, al[c].width, al[c].height)

\* ------------------------------------------------------ agents.py 137-141
overlaps_at(al, xt, yt, i, position) ==
    LET a == al[i]
        candidates == potential_overlaps_for_rect(xt, yt, position, a.width, a.height) \ {i}
    IN \E c \in candidates :
          rects_overlap(position, a.width, a.height, al[c].position, al[c].width, al[c].height)

\* ------------------------------------------------------ agents.py 159-166
RECURSIVE Pow2(_)
Pow2(n) == IF n = 0 THEN 1 ELSE 2 * Pow2(n - 1)

\* the travel fractions low and high are counted in 1 / 2^BisectIters
Along(pos, vel, t) == VAdd(pos, VMulDiv(vel, t, Pow2(BisectIters)))

RECURSIVE Bisect(_, _, _, _, _, _, _, _, _)
Bisect(al, xt, yt, i, pos, vel, low, high, n) ==
    IF n = 0 THEN low
    ELSE LET mid == (low + high) \div 2
         IN IF overlaps_at(al, xt, yt, i, Along(pos, vel, mid))
            THEN Bisect(al, xt, yt, i, pos, vel, low, mid, n - 1)
            ELSE Bisect(al, xt, yt, i, pos, vel, mid, high, n - 1)

\* the y-only move tried before the x-only move
Resolve_y_first(al, xt, yt, i, vel) ==
    LET pos == al[i].position
        full_pos == VAdd(pos, vel)
        x_only == VAdd(pos, <<vel[1], 0>>)
        y_only == VAdd(pos, <<0, vel[2]>>)
        blocked_x == overlaps_at(al, xt, yt, i, x_only)
        blocked_y == overlaps_at(al, xt, yt, i, y_only)
        t_allowed == Bisect(al, xt, yt, i, pos, vel, 0, Pow2(BisectIters), BisectIters)
        at_t == Along(pos, vel, t_allowed)
        past_x == overlaps_at(al, xt, yt, i, <<at_t[1], pos[2]>>)
        past_y == overlaps_at(al, xt, yt, i, <<pos[1], at_t[2]>>)
    IN IF vel = Zero2
       THEN [branch |-> "return", new_pos |-> pos, velocity |-> vel, t |-> 0]
       ELSE IF ~overlaps_at(al, xt, yt, i, full_pos)
       THEN [branch |-> "full", new_pos |-> full_pos, velocity |-> vel, t |-> 0]
       ELSE IF ~blocked_y
       THEN [branch |-> "y_only", new_pos |-> y_only, velocity |-> <<0, vel[2]>>, t |-> 0]
       ELSE IF ~blocked_x
       THEN [branch |-> "x_only", new_pos |-> x_only, velocity |-> <<vel[1], 0>>, t |-> 0]
       ELSE IF t_allowed = 0
       THEN [branch |-> "pinned", new_pos |-> pos, velocity |-> Zero2, t |-> 0]
       ELSE [branch |-> "bisect", new_pos |-> at_t, t |-> t_allowed,
             velocity |-> <<IF past_x THEN 0 ELSE vel[1], IF past_y THEN 0 ELSE vel[2]>>]

\* ------------------------------------------------------ agents.py 129-185
\* the move of agent i with velocity vel: the branch taken, the position
\* before the clamp and the velocity kept for the next step
\* lines 172-176: small = 1e-6 of the travel is less than one unit of
\* position, so each axis is probed at its coordinate of the accepted point
Resolve(al, xt, yt, i, vel) ==
    LET pos == al[i].position
        full_pos == VAdd(pos, vel)
        x_only == VAdd(pos, <<vel[1], 0>>)
        y_only == VAdd(pos, <<0, vel[2]>>)
        blocked_x == overlaps_at(al, xt, yt, i, x_only)
        blocked_y == overlaps_at(al, xt, yt, i, y_only)
        t_allowed == Bisect(al, xt, yt, i, pos, vel, 0, Pow2(BisectIters), BisectIters)
        at_t == Along(pos, vel, t_allowed)
        past_x == overlaps_at(al, xt, yt, i, <<at_t[1], pos[2]>>)
        past_y == overlaps_at(al, xt, yt, i, <<pos[1], at_t[2]>>)
    IN IF vel = Zero2
       THEN [branch |-> "return", new_pos |-> pos, velocity |-> vel, t |-> 0]
       ELSE IF ~overlaps_at(al, xt, yt, i, full_pos)
       THEN [branch |-> "full", new_pos |-> full_pos, velocity |-> vel, t |-> 0]
       ELSE IF ~blocked_x
       THEN [branch |-> "x_only", new_pos |-> x_only, velocity |-> <<vel[1], 0>>, t |-> 0]
       ELSE IF ~blocked_y
       THEN [branch |-> "y_only", new_pos |-> y_only, velocity |-> <<0, vel[2]>>, t |-> 0]
       ELSE IF t_allowed = 0
       THEN [branch |-> "pinned", new_pos |-> pos, velocity |-> Zero2, t |-> 0]
       ELSE [branch |-> "bisect", new_pos |-> at_t, t |-> t_allowed,
             velocity |-> <<IF past_x THEN 0 ELSE vel[1], IF past_y THEN 0 ELSE vel[2]>>]

\* the clamp left out
ClampedNot(new_pos, width, height) == new_pos

\* lines 178-183
Clamped(new_pos, width, height) ==
    <<Clip(new_pos[1], width \div 2, space_width - width \div 2),
      Clip(new_pos[2], height \div 2, space_height - height \div 2)>>

\* lines 185-190: the fields of agent i once the move r made with velocity
\* vel is committed, and what the step did
Outcome(al, i, vel, r) ==
    LET committed == r.branch # "return"
        position == IF committed
                    THEN Clamped(r.new_pos, al[i].width, al[i].height)
                    ELSE al[i].position
    IN [agent |-> [al[i] EXCEPT !.position = position, !.velocity = r.velocity],
        committed |-> committed, branch |-> r.branch, vel |-> vel,
        old_pos |-> al[i].position, new_pos |-> r.new_pos, t |-> r.t]

\* the element of a set of one element
TheOne(S) == CHOOSE v \in S : TRUE

\* Rectangle.step of agent i: the velocity is computed, then the move, then
\* the outcome, each once
RectangleStep(al, xt, yt, i) ==
    TheOne({Outcome(al, i, m[1], m[2]) :
               m \in {<<vel, Resolve(al, xt, yt, i, vel)>> :
                         vel \in {NewVelocity(al, xt, yt, i)}}})

\* ------------------------------------------------------------------ actions
NoSamples == <<>>

Note(op, id, branch, vel, old_pos, new_pos, t, samples, height, width) ==
    [op |-> op, id |-> id, branch |-> branch, vel |-> vel, old_pos |-> old_pos,
     new_pos |-> new_pos, t |-> t, samples |-> samples, height |-> height,
     width |-> width]

\* model.py 52-69: the model before the first rectangle is placed
Init ==
    /\ agent_list = <<>>
    /\ x_tree = {}
    /\ y_tree = {}
    /\ rng = 0
    /\ population_size \in Populations
    /\ pc = "draw"
    /\ size = <<0, 0>>
    /\ error = "none"
    /\ cur = 1
    /\ ticks = 0
    /\ last = Note("init", 0, "none", Zero2, Zero2, Zero2, 0, NoSamples, 0, 0)
    /\ tick_start = <<>>

\* model.py 75-77: the two rng.uniform draws of one round of the loop
DrawSizes ==
    /\ pc = "draw"
    /\ \E hw \in InitSizes : size' = hw
    /\ rng' = rng + 2
    /\ pc' = "spawn"
    /\ last' = Note("draw", 0, "none", Zero2, Zero2, Zero2, 0, NoSamples, 0, 0)
    /\ UNCHANGED <<agent_list, x_tree, y_tree, population_size, error, cur, ticks,
                   tick_start>>

\* model.py 78-81: spawn_rectangle, append, add_agent_intervals; an
\* exception leaves the constructor
Place ==
    /\ pc = "spawn"
    /\ \E samples \in SampleStreams(size[1], size[2]) :
        LET r == spawn_rectangle(agent_list, x_tree, y_tree, size[1], size[2], samples)
            id == Len(agent_list) + 1
            t == add_agent_intervals(x_tree, y_tree, id, r.rect[1])
        IN /\ rng' = rng + r.draws
           /\ error' = r.error
           /\ last' = Note("place", id, r.error, Zero2, Zero2, Zero2, 0,
                           SubSeq(samples, 1, r.draws \div 2), size[1], size[2])
           /\ IF r.error = "none"
              THEN /\ agent_list' = Append(agent_list, r.rect[1])
                   /\ x_tree' = t.x
                   /\ y_tree' = t.y
                   /\ pc' = IF id = population_size THEN "ready" ELSE "draw"
              ELSE /\ pc' = "failed"
                   /\ UNCHANGED <<agent_list, x_tree, y_tree>>
    /\ UNCHANGED <<population_size, size, cur, ticks, tick_start>>

\* model.py 133-151: a caller's own spawn_rectangle(height, width) on the
\* finished model; the rectangle it returns joins neither list nor index
SpawnCall ==
    /\ pc = "ready"
    /\ \E hw \in CallSizes :
         \E samples \in SampleStreams(hw[1], hw[2]) :
           LET r == spawn_rectangle(agent_list, x_tree, y_tree, hw[1], hw[2], samples)
           IN /\ rng' = rng + r.draws
              /\ error' = r.error
              /\ last' = Note("call", 0, r.error, Zero2, Zero2,
                              IF r.error = "none" THEN r.rect[1].position ELSE Zero2,
                              0, SubSeq(samples, 1, r.draws \div 2), hw[1], hw[2])
    /\ pc' = "called"
    /\ UNCHANGED <<agent_list, x_tree, y_tree, population_size, size, cur, ticks,
                   tick_start>>

\* agents.py 35: a rectangle is created at rest; before the first step a
\* caller may set the first rectangle moving
Start ==
    /\ pc = "ready"
    /\ \E v \in StartVelocities :
         agent_list' = [agent_list EXCEPT ![1].velocity = v]
    /\ pc' = "run"
    /\ last' = Note("start", 0, "none", Zero2, Zero2, Zero2, 0, NoSamples, 0, 0)
    /\ UNCHANGED <<x_tree, y_tree, rng, population_size, size, error, cur, ticks,
                   tick_start>>

\* model.py 85-86 and agents.py 57-190: one agent.step() of model.step
AgentStep ==
    /\ pc = "run"
    /\ Len(agent_list) = 1 \/ ticks < MaxTicks
    /\ \E r \in {RectangleStep(agent_list, x_tree, y_tree, cur)} :
         \E t \in {update_agent_intervals(x_tree, y_tree, cur, r.agent)} :
            /\ agent_list' = [agent_list EXCEPT ![cur] = r.agent]
            /\ x_tree' = IF r.committed THEN t.x ELSE x_tree
            /\ y_tree' = IF r.committed THEN t.y ELSE y_tree
            /\ last' = Note("step", cur, r.branch, r.vel, r.old_pos, r.new_pos, r.t,
                            NoSamples, 0, 0)
            /\ tick_start' = IF cur = 1
                             THEN [j \in 1..Len(agent_list) |-> agent_list[j].position]
                             ELSE tick_start
    /\ cur' = IF cur = Len(agent_list) THEN 1 ELSE cur + 1
    /\ ticks' = IF cur = Len(agent_list) /\ ticks < MaxTicks THEN ticks + 1 ELSE ticks
    /\ UNCHANGED <<rng, population_size, pc, size, error>>

Next == DrawSizes \/ Place \/ SpawnCall \/ Start \/ AgentStep

Spec == Init /\ [][Next]_vars

\* the specification in which the model holds a single rectangle
SingleInit == Init /\ population_size = 1

SettleSpec == SingleInit /\ [][Next]_vars /\ WF_vars(AgentStep)

\* --------------------------------------------------------------- properties
Ids == 1..Len(agent_list)

Bounds(a) == RectInterval(a.position, a.width, a.height)

Overlapping(i, j) ==
    rects_overlap(agent_list[i].position, agent_list[i].width, agent_list[i].height,
                  agent_list[j].position, agent_list[j].width, agent_list[j].height)

OverlapFree == \A i \in Ids : \A j \in Ids : i # j => ~Overlapping(i, j)

\* a model step has completed: every agent has been stepped
StepCompleted == pc = "run" /\ cur = 1 /\ last.op = "step"

\* the last operation was the step of an agent that committed a new position
Committed == last.op = "step" /\ last.branch # "return"

\* C1: after every completed model step no two distinct rectangles overlap
\* under rects_overlap
NoOverlapAfterStep == StepCompleted => OverlapFree

\* C2: every rectangle's bounds lie within [0, space_width] x [0, space_height]
\* after construction and after every step of an agent
Contained(a) ==
    /\ 0 <= Bounds(a).x_min /\ Bounds(a).x_max <= space_width
    /\ 0 <= Bounds(a).y_min /\ Bounds(a).y_max <= space_height

Containment == \A i \in Ids : Contained(agent_list[i])

\* the clamp changed the position the integrator accepted
ClampActed == Committed /\ agent_list[last.id].position # last.new_pos

\* the boxes the index is asked about below: centred on a sampled centre or
\* on a rectangle, with the sizes the constructor draws
QueryCentres == SampleCentres \cup {agent_list[i].position : i \in Ids}

BoxesAt(centres) == {[position |-> c, height |-> hw[1], width |-> hw[2]] :
                        c \in centres, hw \in InitSizes}

QueryBoxes == BoxesAt(QueryCentres)

Candidates(xt, yt, q) == potential_overlaps_for_rect(xt, yt, q.position, q.width, q.height)

TrulyOverlaps(q, i) ==
    rects_overlap(q.position, q.width, q.height,
                  agent_list[i].position, agent_list[i].width, agent_list[i].height)

\* the last step moved its agent to another position
Moved == Committed /\ agent_list[last.id].position # last.old_pos

\* C3: every indexed rectangle whose current bounds overlap a query box is
\* among the candidates potential_overlaps_for_rect returns for that box
IndexSound ==
    \A q \in QueryBoxes : \A i \in Ids :
        TrulyOverlaps(q, i) => i \in Candidates(x_tree, y_tree, q)

\* a rectangle that has just moved overlaps a query box centred elsewhere
\* and is returned for it
MovedRectangleFound ==
    /\ Moved
    /\ \E q \in QueryBoxes :
          /\ q.position # agent_list[last.id].position
          /\ TrulyOverlaps(q, last.id)
          /\ last.id \in Candidates(x_tree, y_tree, q)

\* C4: each tree holds exactly one entry per placed rectangle, and that
\* entry is the rectangle's current interval on the tree's axis
IndexFresh ==
    /\ x_tree = {<<Bounds(agent_list[i]).x_min, Bounds(agent_list[i]).x_max, i>> : i \in Ids}
    /\ y_tree = {<<Bounds(agent_list[i]).y_min, Bounds(agent_list[i]).y_max, i>> : i \in Ids}
    /\ Cardinality(x_tree) = Len(agent_list)
    /\ Cardinality(y_tree) = Len(agent_list)

\* a rectangle moved while another one was indexed beside it
MovedAmongOthers == Moved /\ Len(agent_list) > 1

\* C5: moving a rectangle from its bounds b1 to b2 with
\* update_agent_intervals, then back to b1 with update_agent_intervals, gives
\* back the trees it started from: the query boxes (here those at b1 and at
\* b2) have the candidates they had before, and the rectangle has one entry
\* per axis
RoundTrip(i, b2) ==
    LET a1 == agent_list[i]
        a2 == [a1 EXCEPT !.position = b2]
        there == update_agent_intervals(x_tree, y_tree, i, a2)
        back == update_agent_intervals(there.x, there.y, i, a1)
    IN /\ back.x = x_tree
       /\ back.y = y_tree
       /\ \A q \in BoxesAt({a1.position, b2}) :
             Candidates(back.x, back.y, q) = Candidates(x_tree, y_tree, q)
       /\ Cardinality({iv \in back.x : iv[3] = i}) = 1
       /\ Cardinality({iv \in back.y : iv[3] = i}) = 1

UpdateRoundTrip == \A i \in Ids : \A b2 \in QueryCentres : RoundTrip(i, b2)

\* the index has been through an update and a round trip to other bounds
\* changes the candidates on the way
RoundTripLeaves ==
    /\ Moved
    /\ \E b2 \in QueryCentres : \E q \in BoxesAt({b2}) :
          LET a2 == [agent_list[last.id] EXCEPT !.position = b2]
              there == update_agent_intervals(x_tree, y_tree, last.id, a2)
          IN Candidates(there.x, there.y, q) # Candidates(x_tree, y_tree, q)

\* C6: spawn_rectangle with width >= space_width or height >= space_height
\* raises the ValueError and draws nothing: the generator, the list and the
\* trees are as before the call
SizeRejected ==
    [][(last'.op = "call" /\ (last'.width >= space_width \/ last'.height >= space_height))
         => /\ error' = "ValueError"
            /\ rng' = rng
            /\ agent_list' = agent_list
            /\ x_tree' = x_tree
            /\ y_tree' = y_tree]_vars

\* a call with a rectangle as wide as the space has been refused
WideCallRefused ==
    /\ last.op = "call"
    /\ last.width = space_width
    /\ last.height < space_height
    /\ error = "ValueError"
    /\ Len(agent_list) > 0

\* C7: spawn_rectangle returns the rectangle at the first sampled centre that
\* overlaps no rectangle already placed, raises after max_attempts samples
\* that all overlap one, and so the rectangles the constructor has placed are
\* pairwise free of overlap
SampleBlocked(p, height, width, existing) ==
    \E j \in existing :
        rects_overlap(p, width, height,
                      agent_list[j].position, agent_list[j].width, agent_list[j].height)

PlacedBefore == 1..(last.id - 1)

SpawnAccepts ==
    /\ pc # "run" => OverlapFree
    /\ last.op = "place" =>
         /\ error \in {"none", "Exhausted"}
         /\ \A k \in 1..(Len(last.samples) - 1) :
               SampleBlocked(last.samples[k], last.height, last.width, PlacedBefore)
         /\ error = "none" =>
               /\ Len(agent_list) = last.id
               /\ agent_list[last.id].position = last.samples[Len(last.samples)]
               /\ ~SampleBlocked(last.samples[Len(last.samples)], last.height,
                                 last.width, PlacedBefore)
         /\ error = "Exhausted" =>
               /\ Len(agent_list) = last.id - 1
               /\ Len(last.samples) = MaxAttempts
               /\ SampleBlocked(last.samples[MaxAttempts], last.height, last.width,
                                PlacedBefore)

\* a rectangle was placed at a later sample after a sample that overlapped
\* only part of a placed rectangle was turned down
AcceptedAfterRejection ==
    /\ last.op = "place"
    /\ error = "none"
    /\ Len(last.samples) > 1
    /\ \A j \in PlacedBefore : last.samples[1] # agent_list[j].position

\* C8: a single rectangle's velocity becomes the zero vector and stays it,
\* and once it is zero the position no longer changes
Alone == pc = "run" /\ Len(agent_list) = 1

AtRest == Alone /\ agent_list[1].velocity = Zero2

Settling ==
    /\ [](Alone => <>[]AtRest)
    /\ [][AtRest =>
            (agent_list'[1].velocity = Zero2
             /\ agent_list'[1].position = agent_list[1].position)]_vars

\* a single rectangle that was set moving has come to rest somewhere else
SettledElsewhere ==
    /\ AtRest
    /\ last.op = "step"
    /\ last.branch = "return"
    /\ agent_list[1].position \notin SampleCentres

\* C9: the agent stepped last moved with a purely horizontal velocity toward
\* a rectangle b at rest at its height that the full move overlaps: it went
\* less far than the velocity and does not overlap b
Mover == agent_list[last.id]

HeadOn(b) ==
    LET old == RectInterval(last.old_pos, Mover.width, Mover.height)
        o == Bounds(agent_list[b])
    IN /\ last.op = "step"
       /\ b # last.id
       /\ last.vel[2] = 0
       /\ last.vel[1] # 0
       /\ agent_list[b].velocity = Zero2
       /\ agent_list[b].position[2] = last.old_pos[2]
       /\ IF last.vel[1] > 0 THEN old.x_max <= o.x_min ELSE o.x_max <= old.x_min
       /\ rects_overlap(VAdd(last.old_pos, last.vel), Mover.width, Mover.height,
                        agent_list[b].position, agent_list[b].width, agent_list[b].height)

BlockedHeadOn ==
    \A b \in Ids :
        HeadOn(b) => /\ NormSq(VSub(Mover.position, last.old_pos)) < NormSq(last.vel)
                     /\ ~Overlapping(last.id, b)

\* the 4 x 4 rectangle at (10, 10) was stepped toward the 4 x 4 rectangle at
\* (14, 10)
HeadOnExample ==
    /\ last.op = "step"
    /\ last.id = 1
    /\ Len(agent_list) > 1
    /\ HeadOn(2)
    /\ last.old_pos = <<10 * U, 10 * U>>
    /\ agent_list[2].position = <<14 * U, 10 * U>>
    /\ Mover.width = 4 * U /\ Mover.height = 4 * U
    /\ agent_list[2].width = 4 * U /\ agent_list[2].height = 4 * U
    /\ last.vel[1] >= 5 * U

\* C10: when the full move overlaps a rectangle, the x-only move is taken if
\* it is clear (the y velocity becomes 0, the x velocity stays), else the
\* y-only move if it is clear (the x velocity becomes 0, the y velocity
\* stays); the bisection is entered only when both overlap
BlockedAt(p) ==
    \E j \in Ids \ {last.id} :
        rects_overlap(p, Mover.width, Mover.height,
                      agent_list[j].position, agent_list[j].width, agent_list[j].height)

FullPos == VAdd(last.old_pos, last.vel)
XOnly == VAdd(last.old_pos, <<last.vel[1], 0>>)
YOnly == VAdd(last.old_pos, <<0, last.vel[2]>>)

AxisDecomposition ==
    Committed =>
      /\ BlockedAt(FullPos) =>
           IF ~BlockedAt(XOnly)
           THEN /\ last.branch = "x_only"
                /\ Mover.position = Clamped(XOnly, Mover.width, Mover.height)
                /\ Mover.velocity = <<last.vel[1], 0>>
           ELSE IF ~BlockedAt(YOnly)
           THEN /\ last.branch = "y_only"
                /\ Mover.position = Clamped(YOnly, Mover.width, Mover.height)
                /\ Mover.velocity = <<0, last.vel[2]>>
           ELSE last.branch \in {"bisect", "pinned"}
      /\ last.branch \in {"bisect", "pinned"} =>
           BlockedAt(FullPos) /\ BlockedAt(XOnly) /\ BlockedAt(YOnly)
      /\ last.branch \in {"x_only", "y_only"} => BlockedAt(FullPos)

\* the x-only move was taken although the y-only move was clear as well
XOnlyPreferred ==
    /\ Committed
    /\ last.branch = "x_only"
    /\ last.vel[1] # 0 /\ last.vel[2] # 0
    /\ BlockedAt(FullPos)
    /\ ~BlockedAt(YOnly)

\* C11 (path clause): when the full move and both axis-only moves are blocked
\* and the rectangle starts from a collision-free position, the 12 halvings
\* yield a travel fraction t such that no point of the path between the start
\* and the accepted point position + t * velocity overlaps another rectangle
\* (no teleportation through an obstacle), for any arrangement of obstacles
Fractions == 0..Pow2(BisectIters)

PathPoint(s) == Along(last.old_pos, last.vel, s)

Bisected == Committed /\ last.branch \in {"bisect", "pinned"}

StartedClear == ~BlockedAt(PathPoint(0))

NoTeleportation ==
    (Bisected /\ StartedClear) =>
       \A s \in Fractions : s <= last.t => ~BlockedAt(PathPoint(s))

\* C12: within one model step every rectangle is processed exactly once, in
\* list order, and only the rectangle processed changes; every overlap query
\* made while processing a rectangle (full move, x-only move, y-only move,
\* the bracket of the bisection) is answered against the positions committed
\* by the rectangles processed earlier in the same model step and against the
\* positions the rectangles not yet processed had when the model step began
\* (no snapshot of the whole step); processing a rectangle draws nothing
\* from the random generator
SeenPos(j) == IF j < last.id THEN agent_list[j].position ELSE tick_start[j]

BlockedSeen(p) ==
    \E j \in Ids \ {last.id} :
        rects_overlap(p, Mover.width, Mover.height,
                      SeenPos(j), agent_list[j].width, agent_list[j].height)

BlockedInSnapshot(p) ==
    \E j \in Ids \ {last.id} :
        rects_overlap(p, Mover.width, Mover.height,
                      tick_start[j], agent_list[j].width, agent_list[j].height)

AnsweredLive ==
    Committed =>
      /\ last.branch = "full" <=> ~BlockedSeen(FullPos)
      /\ last.branch = "x_only" <=> (BlockedSeen(FullPos) /\ ~BlockedSeen(XOnly))
      /\ last.branch = "y_only" <=>
            (BlockedSeen(FullPos) /\ BlockedSeen(XOnly) /\ ~BlockedSeen(YOnly))
      /\ last.branch = "bisect" =>
            ~BlockedSeen(PathPoint(last.t)) /\ BlockedSeen(PathPoint(last.t + 1))
      /\ last.branch = "pinned" => BlockedSeen(PathPoint(1))

InListOrder ==
    last'.op = "step" =>
      /\ last'.id = IF last.op = "step" THEN (last.id % Len(agent_list)) + 1 ELSE 1
      /\ Len(agent_list') = Len(agent_list)
      /\ \A j \in Ids \ {last'.id} : agent_list'[j] = agent_list[j]
      /\ \A j \in Ids : last'.id > 1 => tick_start'[j] = tick_start[j]
      /\ rng' = rng

SequentialVisibility == []AnsweredLive /\ [][InListOrder]_vars

\* a rectangle's full move was refused because of the position an earlier
\* rectangle committed in the same model step, where the positions at the
\* start of the model step would have let it pass
SawCommittedMove ==
    /\ Committed
    /\ last.id > 1
    /\ last.branch # "full"
    /\ BlockedSeen(FullPos)
    /\ ~BlockedInSnapshot(FullPos)
====
